---- MODULE Spec2Model ----
(***************************************************************************)
(* A model of the devops-test repository:                                  *)
(*   - monitoring-setup.ps1 (src/unnamed/part_000): the PowerShell script  *)
(*     that provisions a workspace, a telemetry component, an action       *)
(*     group, four metric alert rules and a diagnostic setting through the *)
(*     az command-line tool;                                               *)
(*   - src/src/index.js: the demo HTTP server.                             *)
(*                                                                         *)
(* The cloud backend is the environment of the script.  Every az call may  *)
(* succeed or fail; a create call that succeeds puts the resource under    *)
(* its name (a PUT on the resource identifier), a failing one changes      *)
(* nothing.  A native command that fails sets a non-zero exit status and   *)
(* writes to stderr: it does not raise a PowerShell error, so the script   *)
(* goes on unless it tests the result itself.                              *)
(***************************************************************************)
EXTENDS Integers, Sequences, FiniteSets, TLC

\* ---------------------------------------------------------------- bounds
\* Number of runs of the monitoring script in one behaviour.
MaxRuns == 2
\* Number of az calls that fail in one behaviour.
MaxFaults == 2
\* Number of requests the HTTP server answers in one behaviour.
MaxRequests == 2

\* ---------------------------------------------------------------- inputs
\* The value of a variable that holds no object ($null, undefined).
NULL == [null |-> TRUE]

\* -ResourceGroupName of every run.
ResourceGroupName == "rg-x"

\* [string]$Location = "eastus"
Location == "eastus"

\* Web apps that exist in the resource group (made by the infrastructure
\* script), and the names a run may be given.  One name ends like the suffix
\* the naming convention adds.
ExistingWebApps == {"app-y", "app-y-alerts"}
WebAppNames == ExistingWebApps \cup {"app-none"}

\* Values given as -AlertEmailAddress: a valid address, a malformed one, and
\* the empty string.
AlertEmailAddresses == {"a@b.com", "not-an-email", ""}

\* What 'az webapp show' prints for an existing web app.  The two web apps
\* share one App Service Plan.
WebAppDescriptor(name) ==
    [name |-> name,
     id |-> "/" \o ResourceGroupName \o "/sites/" \o name,
     appServicePlanId |-> "/" \o ResourceGroupName \o "/serverfarms/asp-shared"]

VARIABLES
    \* --- the cloud backend
    workspaces,      \* Log Analytics workspaces, by name
    components,      \* Application Insights components, by name
    appSettings,     \* application settings of each existing web app
    actionGroups,    \* action groups, by name
    alertRules,      \* metric alert rules, by name
    diagSettings,    \* diagnostic settings, by resource and name
    \* --- one run of monitoring-setup.ps1
    pc,              \* the statement the script is at
    WebAppName,      \* param
    AlertEmailAddress, \* param
    account,         \* $account
    webApp,          \* $webApp
    webAppResourceId, \* $webAppResourceId
    logAnalytics,    \* $logAnalytics
    appInsights,     \* $appInsights
    actionGroup,     \* $actionGroup
    appServicePlanId, \* $appServicePlanId
    exitCode,        \* exit code of the process, once pc = "done"
    errorMsg,        \* what the catch block wrote, "" when it wrote nothing
    summary,         \* TRUE once "Monitoring Setup Complete!" was written
    calls,           \* the az calls of this run, in order, with their outcome
    \* --- history
    runs,            \* runs started so far
    faults,          \* az calls that failed so far
    prev,            \* the run before this one, as it ended
    \* --- the HTTP server of index.js
    serverState,     \* "starting", "listening" or "closed"
    served,          \* the requests answered so far, each with its response
    \* --- step 7 with its calls in any order
    alertsPending,   \* the alert rules still to create
    \* --- one run of infrastructure.sh, and the cloud it writes
    infraPc,         \* the command the script is at
    WEB_APP_NAME,    \* WEB_APP_NAME, with its timestamp
    infraCalls,      \* the az calls of this run, in order, with their outcome
    infraExit,       \* exit code of the script, once infraPc = "done"
    infraSummary,    \* TRUE once "Deployment Complete!" was written
    infraCloud,      \* resource groups, plans and web apps made so far
    deploys          \* runs of infrastructure.sh started so far

cloudVars == <<workspaces, components, appSettings, actionGroups, alertRules, diagSettings>>
localVars == <<account, webApp, webAppResourceId, logAnalytics, appInsights, actionGroup,
               appServicePlanId>>
paramVars == <<WebAppName, AlertEmailAddress>>
histVars == <<runs, prev>>
monVars == <<cloudVars, pc, paramVars, localVars, exitCode, errorMsg, summary, calls,
             histVars, faults>>

httpVars == <<serverState, served>>

infraVars == <<infraPc, WEB_APP_NAME, infraCalls, infraExit, infraSummary, infraCloud,
               deploys>>

\* What a run of the monitoring script leaves alone.
otherVars == <<httpVars, alertsPending, infraVars>>

vars == <<monVars, httpVars, alertsPending, infraVars>>

\* The cloud as one value.
Cloud ==
    [workspaces |-> workspaces, components |-> components, appSettings |-> appSettings,
     actionGroups |-> actionGroups, alertRules |-> alertRules, diagSettings |-> diagSettings]

\* f with v put under key k: what a create call does to a collection.
Put(f, k, v) == [n \in DOMAIN f \cup {k} |-> IF n = k THEN v ELSE f[n]]

\* Mutant of logAnalyticsName: a name made unique per run, as the
\* infrastructure script does with its timestamp.
logAnalyticsName_PerRun == "log-" \o WebAppName \o "-" \o ToString(runs)

\* Mutant of appInsightsName: the web app name is left out.
appInsightsName_Fixed == "appi-webapp"

\* ------------------------------------------------------- naming conventions
logAnalyticsName == "log-" \o WebAppName
appInsightsName == "appi-" \o WebAppName
actionGroupName == "ag-" \o WebAppName \o "-alerts"

Init ==
    /\ workspaces = <<>>
    /\ components = <<>>
    /\ appSettings = [a \in ExistingWebApps |-> <<>>]
    /\ actionGroups = <<>>
    /\ alertRules = <<>>
    /\ diagSettings = <<>>
    /\ pc = "idle"
    /\ WebAppName = ""
    /\ AlertEmailAddress = ""
    /\ account = NULL
    /\ webApp = NULL
    /\ webAppResourceId = ""
    /\ logAnalytics = NULL
    /\ appInsights = NULL
    /\ actionGroup = NULL
    /\ appServicePlanId = ""
    /\ exitCode = 0
    /\ errorMsg = ""
    /\ summary = FALSE
    /\ calls = <<>>
    /\ runs = 0
    /\ faults = 0
    /\ prev = NULL
    /\ serverState = "starting"
    /\ served = <<>>
    /\ alertsPending = {}
    /\ infraPc = "idle"
    /\ WEB_APP_NAME = ""
    /\ infraCalls = <<>>
    /\ infraExit = 0
    /\ infraSummary = FALSE
    /\ infraCloud = [groups |-> {}, plans |-> {}, webApps |-> <<>>]
    /\ deploys = 0

\* ------------------------------------------------------ PowerShell semantics
\* -not $x: TRUE when the pipeline assigned nothing to $x.
IsEmpty(obj) == obj = NULL

\* Mutant of StrictModeThrows: strict mode is off, a property read on $null
\* gives $null.
StrictModeOff(obj) == FALSE

\* Set-StrictMode -Version Latest: a property read on $null is a terminating
\* error (it is raised while the arguments of the next command are evaluated,
\* before that command runs).
StrictModeThrows(obj) == obj = NULL

\* Mutant of BindingFails: the empty string is bound ([AllowEmptyString()]).
BindingAcceptsEmpty(email) == FALSE

\* A [Parameter(Mandatory = $true)] [string] is not bound to an empty string:
\* the script does not start.  Nothing else is asked of the address.
BindingFails(email) == email = ""

\* $obj.p: the property p of $obj, and nothing when $obj is $null (under
\* strict mode the read of a property of $null does not get this far).
Prop(obj, p) == IF obj = NULL THEN "" ELSE obj[p]

\* Records one az call of this run: the command, its main argument, the
\* identifiers it was given (uses), the identifiers its output holds (gives)
\* and whether it succeeded.
CallIds(op, arg, uses, gives, ok) ==
    calls' = Append(calls, [op |-> op, arg |-> arg, uses |-> uses, gives |-> gives,
                            ok |-> ok])

\* A call that is given no identifier and whose output is not read.
Call(op, arg, ok) == CallIds(op, arg, {}, {}, ok)
NoCall == UNCHANGED calls

\* The outcome of one az call: it may fail while failures are left.
Fault(ok) ==
    /\ ok \/ faults < MaxFaults
    /\ faults' = IF ok THEN faults ELSE faults + 1

\* throw ... } catch { Write-Status "Error: ..." -Type "Error"; exit 1 }
Throw(msg) ==
    /\ pc' = "done"
    /\ exitCode' = 1
    /\ errorMsg' = msg
    /\ UNCHANGED summary

Goto(label) ==
    /\ pc' = label
    /\ UNCHANGED <<exitCode, errorMsg, summary>>

\* TRUE when the run that has just ended made every call of steps 1-8 and
\* none of them failed.
AllCallsOk == \A i \in 1..Len(calls) : calls[i].ok

\* Mutant of AlertHttp5xxName: the name of the CPU rule, copied.
AlertHttp5xxName_Copied == "alert-cpu-high-" \o WebAppName

\* Mutant of DiagName: a name made unique per run.
DiagName_PerRun == "diag-" \o WebAppName \o "-" \o ToString(runs)

\* Mutant of AlertResponseTimeName: the name of the HTTP 5xx rule, copied.
AlertResponseTimeName_Copied == "alert-http5xx-" \o WebAppName

\* The names a run uses, by role.
AlertCpuName == "alert-cpu-high-" \o WebAppName
AlertMemoryName == "alert-memory-high-" \o WebAppName
AlertHttp5xxName == "alert-http5xx-" \o WebAppName
AlertResponseTimeName == "alert-response-time-" \o WebAppName
DiagName == "diag-" \o WebAppName

Names ==
    [workspace |-> logAnalyticsName, telemetry |-> appInsightsName,
     notificationGroup |-> actionGroupName, cpu |-> AlertCpuName,
     memory |-> AlertMemoryName, http5xx |-> AlertHttp5xxName,
     responseTime |-> AlertResponseTimeName, diag |-> DiagName]

Roles == DOMAIN Names

\* ------------------------------------------------------------------- a run
\* The script is started with its parameters.
Start(app, email) ==
    /\ pc \in {"idle", "done"}
    /\ runs < MaxRuns
    /\ runs' = runs + 1
    /\ prev' = IF pc = "done"
               THEN [WebAppName |-> WebAppName, AlertEmailAddress |-> AlertEmailAddress,
                     names |-> Names, exitCode |-> exitCode, allOk |-> AllCallsOk,
                     summary |-> summary, cloud |-> Cloud]
               ELSE NULL
    /\ WebAppName' = app
    /\ AlertEmailAddress' = email
    /\ account' = NULL
    /\ webApp' = NULL
    /\ webAppResourceId' = ""
    /\ logAnalytics' = NULL
    /\ appInsights' = NULL
    /\ actionGroup' = NULL
    /\ appServicePlanId' = ""
    /\ calls' = <<>>
    /\ summary' = FALSE
    /\ errorMsg' = ""
    /\ IF BindingFails(email)
       THEN pc' = "done" /\ exitCode' = 1
       ELSE pc' = "account" /\ exitCode' = 0
    /\ UNCHANGED <<cloudVars, faults, otherVars>>

\* Mutant of VerifyLogin: the result of the lookup is not tested.
VerifyLogin_Unchecked ==
    /\ pc = "account"
    /\ \E ok \in BOOLEAN :
        /\ ok \/ faults < MaxFaults
        /\ faults' = IF ok THEN faults ELSE faults + 1
        /\ calls' = Append(calls, [op |-> "account show", arg |-> "", uses |-> {},
                                   gives |-> {}, ok |-> ok])
        /\ account' = IF ok THEN [name |-> "subscription"] ELSE NULL
    /\ pc' = "webapp"
    /\ UNCHANGED <<exitCode, errorMsg, summary>>
    /\ UNCHANGED <<cloudVars, paramVars, histVars, otherVars, webApp, webAppResourceId,
                   logAnalytics, appInsights, actionGroup, appServicePlanId>>

\* Step 1a: $account = az account show 2>$null | ConvertFrom-Json
VerifyLogin ==
    /\ pc = "account"
    /\ \E ok \in BOOLEAN :
        /\ Fault(ok)
        /\ Call("account show", "", ok)
        /\ account' = IF ok THEN [name |-> "subscription"] ELSE NULL
        /\ IF IsEmpty(account')
           THEN Throw("Not logged into Azure CLI")
           ELSE Goto("webapp")
    /\ UNCHANGED <<cloudVars, paramVars, histVars, otherVars, webApp, webAppResourceId, logAnalytics,
                   appInsights, actionGroup, appServicePlanId>>

\* Step 1b: $webApp = az webapp show ... 2>$null | ConvertFrom-Json
VerifyWebApp ==
    /\ pc = "webapp"
    /\ \E ok \in BOOLEAN :
        /\ Fault(ok)
        /\ LET found == ok /\ WebAppName \in ExistingWebApps IN
            /\ CallIds("webapp show", WebAppName, {},
                       IF found
                       THEN {WebAppDescriptor(WebAppName).id,
                             WebAppDescriptor(WebAppName).appServicePlanId}
                       ELSE {},
                       found)
            /\ webApp' = IF found THEN WebAppDescriptor(WebAppName) ELSE NULL
            /\ IF IsEmpty(webApp')
               THEN Throw("Web App not found") /\ UNCHANGED webAppResourceId
               ELSE webAppResourceId' = webApp'.id /\ Goto("wsCreate")
    /\ UNCHANGED <<cloudVars, paramVars, histVars, otherVars, account, logAnalytics, appInsights,
                   actionGroup, appServicePlanId>>

\* Step 2a: az monitor log-analytics workspace create
WorkspaceDescriptor(name) ==
    [name |-> name,
     id |-> "/" \o ResourceGroupName \o "/workspaces/" \o name,
     location |-> Location,
     retention |-> 30]

CreateWorkspace ==
    /\ pc = "wsCreate"
    /\ \E ok \in BOOLEAN :
        /\ Fault(ok)
        /\ Call("workspace create", logAnalyticsName, ok)
        /\ workspaces' = IF ok
                         THEN Put(workspaces, logAnalyticsName,
                                  WorkspaceDescriptor(logAnalyticsName))
                         ELSE workspaces
    /\ Goto("wsShow")
    /\ UNCHANGED <<components, appSettings, actionGroups, alertRules, diagSettings,
                   paramVars, localVars, histVars, otherVars>>

\* Step 2b: $logAnalytics = az monitor log-analytics workspace show | ConvertFrom-Json
ShowWorkspace ==
    /\ pc = "wsShow"
    /\ \E ok \in BOOLEAN :
        /\ Fault(ok)
        /\ LET found == ok /\ logAnalyticsName \in DOMAIN workspaces IN
            /\ CallIds("workspace show", logAnalyticsName, {},
                       IF found THEN {workspaces[logAnalyticsName].id} ELSE {}, found)
            /\ logAnalytics' = IF found THEN workspaces[logAnalyticsName] ELSE NULL
    /\ Goto("aiCreate")
    /\ UNCHANGED <<cloudVars, paramVars, histVars, otherVars, account, webApp, webAppResourceId,
                   appInsights, actionGroup, appServicePlanId>>

\* Step 3a: az monitor app-insights component create --workspace $logAnalytics.id
ComponentDescriptor(name, workspaceId) ==
    [name |-> name,
     id |-> "/" \o ResourceGroupName \o "/components/" \o name,
     workspace |-> workspaceId,
     applicationType |-> "web",
     connectionString |-> "InstrumentationKey=" \o name]

CreateAppInsights ==
    /\ pc = "aiCreate"
    /\ IF StrictModeThrows(logAnalytics)
       THEN /\ Throw("The property 'id' cannot be found on this object")
            /\ NoCall
            /\ UNCHANGED <<components, faults>>
       ELSE /\ \E ok \in BOOLEAN :
                /\ Fault(ok)
                /\ CallIds("app-insights create", appInsightsName,
                           {Prop(logAnalytics, "id")}, {}, ok)
                /\ components' = IF ok
                                 THEN Put(components, appInsightsName,
                                          ComponentDescriptor(appInsightsName,
                                                              Prop(logAnalytics, "id")))
                                 ELSE components
            /\ Goto("aiShow")
    /\ UNCHANGED <<workspaces, appSettings, actionGroups, alertRules, diagSettings,
                   paramVars, localVars, histVars, otherVars>>

\* Step 3b: $appInsights = az monitor app-insights component show | ConvertFrom-Json
ShowAppInsights ==
    /\ pc = "aiShow"
    /\ \E ok \in BOOLEAN :
        /\ Fault(ok)
        /\ LET found == ok /\ appInsightsName \in DOMAIN components IN
            /\ CallIds("app-insights show", appInsightsName, {},
                       IF found THEN {components[appInsightsName].connectionString}
                                ELSE {},
                       found)
            /\ appInsights' = IF found THEN components[appInsightsName] ELSE NULL
    /\ Goto("appSettings")
    /\ UNCHANGED <<cloudVars, paramVars, histVars, otherVars, account, webApp, webAppResourceId,
                   logAnalytics, actionGroup, appServicePlanId>>

\* Step 4: az webapp config appsettings set --settings ...
TelemetrySettings(connectionString) ==
    [k \in {"APPLICATIONINSIGHTS_CONNECTION_STRING",
            "ApplicationInsightsAgent_EXTENSION_VERSION",
            "XDT_MicrosoftApplicationInsights_Mode"} |->
        CASE k = "APPLICATIONINSIGHTS_CONNECTION_STRING" -> connectionString
          [] k = "ApplicationInsightsAgent_EXTENSION_VERSION" -> "~3"
          [] OTHER -> "Recommended"]

\* The settings s with the entries of t set.
Merge(s, t) == [k \in DOMAIN s \cup DOMAIN t |-> IF k \in DOMAIN t THEN t[k] ELSE s[k]]

ConfigureAppSettings ==
    /\ pc = "appSettings"
    /\ IF StrictModeThrows(appInsights)
       THEN /\ Throw("The property 'connectionString' cannot be found on this object")
            /\ NoCall
            /\ UNCHANGED <<appSettings, faults>>
       ELSE /\ \E ok \in BOOLEAN :
                /\ Fault(ok)
                /\ CallIds("appsettings set", WebAppName,
                           {Prop(appInsights, "connectionString")}, {}, ok)
                /\ appSettings' =
                     IF ok
                     THEN [appSettings EXCEPT ![WebAppName] =
                             Merge(@, TelemetrySettings(Prop(appInsights,
                                                             "connectionString")))]
                     ELSE appSettings
            /\ Goto("agCreate")
    /\ UNCHANGED <<workspaces, components, actionGroups, alertRules, diagSettings,
                   paramVars, localVars, histVars, otherVars>>

\* Step 5a: az monitor action-group create --action email AdminEmail $AlertEmailAddress
ActionGroupDescriptor(name, email) ==
    [name |-> name,
     id |-> "/" \o ResourceGroupName \o "/actionGroups/" \o name,
     shortName |-> "AppAlerts",
     email |-> email]

CreateActionGroup ==
    /\ pc = "agCreate"
    /\ \E ok \in BOOLEAN :
        /\ Fault(ok)
        /\ Call("action-group create", AlertEmailAddress, ok)
        /\ actionGroups' = IF ok
                           THEN Put(actionGroups, actionGroupName,
                                    ActionGroupDescriptor(actionGroupName,
                                                          AlertEmailAddress))
                           ELSE actionGroups
    /\ Goto("agShow")
    /\ UNCHANGED <<workspaces, components, appSettings, alertRules, diagSettings,
                   paramVars, localVars, histVars, otherVars>>

\* Step 5b: $actionGroup = az monitor action-group show | ConvertFrom-Json
ShowActionGroup ==
    /\ pc = "agShow"
    /\ \E ok \in BOOLEAN :
        /\ Fault(ok)
        /\ LET found == ok /\ actionGroupName \in DOMAIN actionGroups IN
            /\ CallIds("action-group show", actionGroupName, {},
                       IF found THEN {actionGroups[actionGroupName].id} ELSE {}, found)
            /\ actionGroup' = IF found THEN actionGroups[actionGroupName] ELSE NULL
            /\ IF IsEmpty(actionGroup')
               THEN Throw("Failed to create Action Group")
               ELSE Goto("plan")
    /\ UNCHANGED <<cloudVars, paramVars, histVars, otherVars, account, webApp, webAppResourceId,
                   logAnalytics, appInsights, appServicePlanId>>

\* Step 6: $appServicePlanId = $webApp.appServicePlanId
GetAppServicePlan ==
    /\ pc = "plan"
    /\ appServicePlanId' = webApp.appServicePlanId
    /\ Goto("alertCpu")
    /\ NoCall
    /\ UNCHANGED <<cloudVars, paramVars, histVars, otherVars, faults, account, webApp,
                   webAppResourceId, logAnalytics, appInsights, actionGroup>>

\* Mutant of CpuAlert: the rule is scoped to the web app.
CpuAlert_AppScoped ==
    [name |-> "alert-cpu-high-" \o WebAppName,
     scopes |-> webAppResourceId,
     aggregation |-> "avg", metric |-> "CpuPercentage", operator |-> ">", threshold |-> 80,
     windowSize |-> 5, evaluationFrequency |-> 1,
     severity |-> 2,
     action |-> actionGroup.id]

\* Mutant of MemoryAlert: the window and the frequency are exchanged.
MemoryAlert_WindowSwapped ==
    [name |-> "alert-memory-high-" \o WebAppName,
     scopes |-> appServicePlanId,
     aggregation |-> "avg", metric |-> "MemoryPercentage", operator |-> ">", threshold |-> 85,
     windowSize |-> 1, evaluationFrequency |-> 5,
     severity |-> 2,
     action |-> actionGroup.id]

\* Step 7: the four rules given to 'az monitor metrics alert create'.
\* --window-size and --evaluation-frequency are in minutes.
CpuAlert ==
    [name |-> AlertCpuName,
     scopes |-> appServicePlanId,
     aggregation |-> "avg", metric |-> "CpuPercentage", operator |-> ">", threshold |-> 80,
     windowSize |-> 5, evaluationFrequency |-> 1,
     severity |-> 2,
     action |-> actionGroup.id]

MemoryAlert ==
    [name |-> AlertMemoryName,
     scopes |-> appServicePlanId,
     aggregation |-> "avg", metric |-> "MemoryPercentage", operator |-> ">", threshold |-> 85,
     windowSize |-> 5, evaluationFrequency |-> 1,
     severity |-> 2,
     action |-> actionGroup.id]

Http5xxAlert ==
    [name |-> AlertHttp5xxName,
     scopes |-> webAppResourceId,
     aggregation |-> "total", metric |-> "Http5xx", operator |-> ">", threshold |-> 10,
     windowSize |-> 5, evaluationFrequency |-> 1,
     severity |-> 1,
     action |-> actionGroup.id]

ResponseTimeAlert ==
    [name |-> AlertResponseTimeName,
     scopes |-> webAppResourceId,
     aggregation |-> "avg", metric |-> "HttpResponseTime", operator |-> ">", threshold |-> 5,
     windowSize |-> 5, evaluationFrequency |-> 1,
     severity |-> 3,
     action |-> actionGroup.id]

\* One 'az monitor metrics alert create' call, at label here.
CreateAlert(rule, here, next) ==
    /\ pc = here
    /\ \E ok \in BOOLEAN :
        /\ Fault(ok)
        /\ CallIds("alert create", rule.name, {rule.scopes, rule.action}, {}, ok)
        /\ alertRules' = IF ok THEN Put(alertRules, rule.name, rule) ELSE alertRules
    /\ Goto(next)
    /\ UNCHANGED <<workspaces, components, appSettings, actionGroups, diagSettings,
                   paramVars, localVars, histVars, otherVars>>

CreateCpuAlert == CreateAlert(CpuAlert, "alertCpu", "alertMemory")
CreateMemoryAlert == CreateAlert(MemoryAlert, "alertMemory", "alertHttp5xx")
CreateHttp5xxAlert == CreateAlert(Http5xxAlert, "alertHttp5xx", "alertResponseTime")
CreateResponseTimeAlert == CreateAlert(ResponseTimeAlert, "alertResponseTime", "diag")

\* Step 8: az monitor diagnostic-settings create
logsConfig == {"AppServiceHTTPLogs", "AppServiceConsoleLogs", "AppServiceAppLogs"}
metricsConfig == {"AllMetrics"}

DiagnosticSetting ==
    [name |-> DiagName,
     resource |-> webAppResourceId,
     workspace |-> Prop(logAnalytics, "id"),
     logs |-> logsConfig,
     metrics |-> metricsConfig]

\* A diagnostic setting is a child of the resource it is set on.
DiagKey(resource, name) == resource \o "/diagnosticSettings/" \o name

CreateDiagnosticSettings ==
    /\ pc = "diag"
    /\ \E ok \in BOOLEAN :
        /\ Fault(ok)
        /\ CallIds("diagnostic-settings create", DiagName,
                   {webAppResourceId, Prop(logAnalytics, "id")}, {}, ok)
        /\ diagSettings' = IF ok
                           THEN Put(diagSettings, DiagKey(webAppResourceId, DiagName),
                                    DiagnosticSetting)
                           ELSE diagSettings
    /\ Goto("summary")
    /\ UNCHANGED <<workspaces, components, appSettings, actionGroups, alertRules,
                   paramVars, localVars, histVars, otherVars>>

\* The summary; the script ends, and the process with it.  A script that
\* ends without 'exit' gives exit code 0, whatever the az calls returned.
Summary ==
    /\ pc = "summary"
    /\ summary' = TRUE
    /\ pc' = "done"
    /\ exitCode' = 0
    /\ UNCHANGED errorMsg
    /\ NoCall
    /\ UNCHANGED <<cloudVars, paramVars, localVars, histVars, faults, otherVars>>

\* ------------------------------------------------------- index.js, the server
\* What a request may carry, and what new Date().toISOString() may give.
Urls == {"/health", "/", "/health?full=1", "/other"}
Methods == {"GET", "HEAD", "POST"}
Timestamps == {"2024-01-01T00:00:00.000Z", "2024-01-01T00:00:01.000Z"}

Requests == [url : Urls, method : Methods]

\* Mutant of handler: the query string is left out of the comparison.
handler_QueryIgnored(req, timestamp) ==
    IF req.url \in {"/health", "/health?full=1"}
    THEN [status |-> 200, contentType |-> "application/json",
          body |-> [status |-> "healthy", timestamp |-> timestamp]]
    ELSE IF req.url = "/"
    THEN [status |-> 200, contentType |-> "text/html",
          body |-> [title |-> "DevOps Test App", serverTime |-> timestamp]]
    ELSE [status |-> 404, contentType |-> "application/json",
          body |-> [error |-> "Not Found"]]

\* Mutant of handler: '/health' is answered for GET alone.
handler_GetOnly(req, timestamp) ==
    IF req.url = "/health" /\ req.method = "GET"
    THEN [status |-> 200, contentType |-> "application/json",
          body |-> [status |-> "healthy", timestamp |-> timestamp]]
    ELSE [status |-> 404, contentType |-> "application/json",
          body |-> [error |-> "Not Found"]]

\* The request handler given to http.createServer: what it passes to
\* res.writeHead and res.end for request req, timestamp being the time it reads.
\* body is the value that is written (the object given to JSON.stringify, or
\* the page).
handler(req, timestamp) ==
    IF req.url = "/health"
    THEN [status |-> 200, contentType |-> "application/json",
          body |-> [status |-> "healthy", timestamp |-> timestamp]]
    ELSE IF req.url = "/"
    THEN [status |-> 200, contentType |-> "text/html",
          body |-> [title |-> "DevOps Test App", serverTime |-> timestamp]]
    ELSE [status |-> 404, contentType |-> "application/json",
          body |-> [error |-> "Not Found"]]

\* The number of res.end calls the handler makes for a request: one in each
\* branch, and a branch that has answered returns.
EndCalls(req) ==
    LET health == req.url = "/health"
        \* the test of '/' is reached when the '/health' branch did not return
        root == ~health /\ req.url = "/"
        \* the last lines are reached when neither branch returned
        notFound == ~health /\ ~root
    IN  (IF health THEN 1 ELSE 0) + (IF root THEN 1 ELSE 0)
        + (IF notFound THEN 1 ELSE 0)

\* server.listen(port, callback): the server is bound and the callback runs.
Listening ==
    /\ serverState = "starting"
    /\ serverState' = "listening"
    /\ UNCHANGED <<served, monVars, alertsPending, infraVars>>

\* A request arrives while the server listens, and the handler answers it.
Request(req, timestamp) ==
    /\ serverState = "listening"
    /\ Len(served) < MaxRequests
    /\ served' = Append(served, [req |-> req, res |-> handler(req, timestamp),
                                 ends |-> EndCalls(req)])
    /\ UNCHANGED <<serverState, monVars, alertsPending, infraVars>>

\* server.close(), as the test calls it.
Close ==
    /\ serverState \in {"starting", "listening"}
    /\ serverState' = "closed"
    /\ UNCHANGED <<served, monVars, alertsPending, infraVars>>

NextHttp ==
    \/ Listening
    \/ \E req \in Requests, timestamp \in Timestamps : Request(req, timestamp)
    \/ Close

SpecHttp == Init /\ [][NextHttp]_vars

\* ------------------------------------------- step 7, its calls in any order
AlertKinds == {"cpu", "memory", "http5xx", "responseTime"}

\* The rule of each kind, as the script gives it to az.
AlertRule(kind) ==
    CASE kind = "cpu" -> CpuAlert
      [] kind = "memory" -> MemoryAlert
      [] kind = "http5xx" -> Http5xxAlert
      [] OTHER -> ResponseTimeAlert

\* The state of a first run on a cloud without monitoring resources, once
\* steps 1-6 have succeeded, the script being at label.
AfterStep6(label) ==
    \E app \in ExistingWebApps, email \in AlertEmailAddresses \ {""} :
        /\ WebAppName = app
        /\ AlertEmailAddress = email
        /\ workspaces = Put(<<>>, logAnalyticsName, WorkspaceDescriptor(logAnalyticsName))
        /\ components =
              Put(<<>>, appInsightsName,
                  ComponentDescriptor(appInsightsName,
                                      WorkspaceDescriptor(logAnalyticsName).id))
        /\ appSettings =
              [a \in ExistingWebApps |->
                  IF a = app
                  THEN TelemetrySettings(components[appInsightsName].connectionString)
                  ELSE <<>>]
        /\ actionGroups =
              Put(<<>>, actionGroupName, ActionGroupDescriptor(actionGroupName, email))
        /\ alertRules = <<>>
        /\ diagSettings = <<>>
        /\ pc = label
        /\ account = [name |-> "subscription"]
        /\ webApp = WebAppDescriptor(app)
        /\ webAppResourceId = webApp.id
        /\ logAnalytics = workspaces[logAnalyticsName]
        /\ appInsights = components[appInsightsName]
        /\ actionGroup = actionGroups[actionGroupName]
        /\ appServicePlanId = webApp.appServicePlanId
        /\ exitCode = 0
        /\ errorMsg = ""
        /\ summary = FALSE
        /\ calls =
              << [op |-> "account show", arg |-> "", uses |-> {}, gives |-> {},
                  ok |-> TRUE],
                 [op |-> "webapp show", arg |-> app, uses |-> {},
                  gives |-> {webApp.id, webApp.appServicePlanId}, ok |-> TRUE],
                 [op |-> "workspace create", arg |-> logAnalyticsName, uses |-> {},
                  gives |-> {}, ok |-> TRUE],
                 [op |-> "workspace show", arg |-> logAnalyticsName, uses |-> {},
                  gives |-> {logAnalytics.id}, ok |-> TRUE],
                 [op |-> "app-insights create", arg |-> appInsightsName,
                  uses |-> {logAnalytics.id}, gives |-> {}, ok |-> TRUE],
                 [op |-> "app-insights show", arg |-> appInsightsName, uses |-> {},
                  gives |-> {appInsights.connectionString}, ok |-> TRUE],
                 [op |-> "appsettings set", arg |-> app,
                  uses |-> {appInsights.connectionString}, gives |-> {}, ok |-> TRUE],
                 [op |-> "action-group create", arg |-> email, uses |-> {},
                  gives |-> {}, ok |-> TRUE],
                 [op |-> "action-group show", arg |-> actionGroupName, uses |-> {},
                  gives |-> {actionGroup.id}, ok |-> TRUE] >>
        /\ runs = 1
        /\ faults = 0
        /\ prev = NULL

InitAlerts ==
    /\ AfterStep6("alerts")
    /\ alertsPending = AlertKinds
    /\ serverState = "starting"
    /\ served = <<>>
    /\ infraPc = "idle"
    /\ WEB_APP_NAME = ""
    /\ infraCalls = <<>>
    /\ infraExit = 0
    /\ infraSummary = FALSE
    /\ infraCloud = [groups |-> {}, plans |-> {}, webApps |-> <<>>]
    /\ deploys = 0

\* One of the 'az monitor metrics alert create' calls of step 7, taken in any
\* order; step 8 follows the last of them.
CreateAlertInAnyOrder(kind) ==
    /\ pc = "alerts"
    /\ kind \in alertsPending
    /\ alertsPending' = alertsPending \ {kind}
    /\ LET rule == AlertRule(kind) IN
        \E ok \in BOOLEAN :
            /\ Fault(ok)
            /\ CallIds("alert create", rule.name, {rule.scopes, rule.action}, {}, ok)
            /\ alertRules' = IF ok THEN Put(alertRules, rule.name, rule) ELSE alertRules
    /\ Goto(IF alertsPending = {kind} THEN "diag" ELSE "alerts")
    /\ UNCHANGED <<workspaces, components, appSettings, actionGroups, diagSettings,
                   paramVars, localVars, histVars, httpVars, infraVars>>

NextAlerts == \E kind \in AlertKinds : CreateAlertInAnyOrder(kind)

SpecAlerts == InitAlerts /\ [][NextAlerts]_vars

\* ------------------------------------------------------- infrastructure.sh
MaxDeploys == 2

RESOURCE_GROUP == "rg-myapp-dev"
APP_SERVICE_PLAN == "asp-myapp-dev"

\* The seconds 'date +%s' may answer when a run starts.
Seconds == {1, 2}

\* The non-zero exit statuses of a failing az command.
AzFailures == {1, 2}

\* The az commands of the script, in the order of its lines.
InfraOrder ==
    <<"account show", "account show --query", "group create",
      "appservice plan create", "webapp create", "webapp update">>

\* Mutant of ErrExit: the script without 'set -e'.
ErrExit_Off == FALSE

\* set -e: a simple command that exits non-zero ends the script.
ErrExit == TRUE

InfraCall(op, arg, ok) ==
    infraCalls' = Append(infraCalls, [op |-> op, arg |-> arg, ok |-> ok])

\* Where the script goes after a simple command: on to the next line, or,
\* under set -e, out with the status of the command that failed.
AfterCommand(ok, code, next) ==
    IF ok \/ ~ErrExit
    THEN infraPc' = next /\ UNCHANGED infraExit
    ELSE infraPc' = "done" /\ infraExit' = code

infraFrame == <<monVars, httpVars, alertsPending, WEB_APP_NAME, infraSummary, deploys>>

\* The script is started: its configuration lines are evaluated.
StartDeploy(second) ==
    /\ infraPc \in {"idle", "done"}
    /\ deploys < MaxDeploys
    /\ deploys' = deploys + 1
    /\ WEB_APP_NAME' = "webapp-myapp-dev-" \o ToString(second)
    /\ infraCalls' = <<>>
    /\ infraExit' = 0
    /\ infraSummary' = FALSE
    /\ infraPc' = "auth"
    /\ UNCHANGED <<monVars, httpVars, alertsPending, infraCloud>>

\* az account show > /dev/null 2>&1 || { echo ...; exit 1; }
VerifyAuthentication ==
    /\ infraPc = "auth"
    /\ \E ok \in BOOLEAN :
          /\ InfraCall("account show", "", ok)
          /\ IF ok
             THEN infraPc' = "subscription" /\ UNCHANGED infraExit
             ELSE infraPc' = "done" /\ infraExit' = 1
    /\ UNCHANGED <<infraFrame, infraCloud>>

\* az account show --query "{Name:name, Id:id}" -o table
DisplaySubscription ==
    /\ infraPc = "subscription"
    /\ \E ok \in BOOLEAN, code \in AzFailures :
          /\ InfraCall("account show --query", "", ok)
          /\ AfterCommand(ok, code, "group")
    /\ UNCHANGED <<infraFrame, infraCloud>>

\* az group create --name "$RESOURCE_GROUP" ...
CreateResourceGroup ==
    /\ infraPc = "group"
    /\ \E ok \in BOOLEAN, code \in AzFailures :
          /\ InfraCall("group create", [name |-> RESOURCE_GROUP], ok)
          /\ infraCloud' =
                IF ok
                THEN [infraCloud EXCEPT !.groups = @ \cup {RESOURCE_GROUP}]
                ELSE infraCloud
          /\ AfterCommand(ok, code, "plan")
    /\ UNCHANGED infraFrame

\* az appservice plan create --name "$APP_SERVICE_PLAN" --resource-group ...
\* The backend makes a plan in a resource group that exists.
CreateAppServicePlan ==
    /\ infraPc = "plan"
    /\ \E ok \in BOOLEAN, code \in AzFailures :
          /\ ok => RESOURCE_GROUP \in infraCloud.groups
          /\ InfraCall("appservice plan create",
                       [name |-> APP_SERVICE_PLAN, group |-> RESOURCE_GROUP], ok)
          /\ infraCloud' =
                IF ok
                THEN [infraCloud EXCEPT !.plans = @ \cup {APP_SERVICE_PLAN}]
                ELSE infraCloud
          /\ AfterCommand(ok, code, "webapp")
    /\ UNCHANGED infraFrame

\* az webapp create --name "$WEB_APP_NAME" --plan "$APP_SERVICE_PLAN" ...
\* The backend makes a web app on a plan that exists.
CreateWebApp ==
    /\ infraPc = "webapp"
    /\ \E ok \in BOOLEAN, code \in AzFailures :
          /\ ok => APP_SERVICE_PLAN \in infraCloud.plans
          /\ InfraCall("webapp create",
                       [name |-> WEB_APP_NAME, plan |-> APP_SERVICE_PLAN], ok)
          /\ infraCloud' =
                IF ok /\ WEB_APP_NAME \notin DOMAIN infraCloud.webApps
                THEN [infraCloud EXCEPT !.webApps =
                         Put(@, WEB_APP_NAME,
                             [plan |-> APP_SERVICE_PLAN, httpsOnly |-> FALSE])]
                ELSE infraCloud
          /\ AfterCommand(ok, code, "https")
    /\ UNCHANGED infraFrame

\* az webapp update --name "$WEB_APP_NAME" --https-only true
\* The backend updates a web app that exists.
EnableHttpsOnly ==
    /\ infraPc = "https"
    /\ \E ok \in BOOLEAN, code \in AzFailures :
          /\ ok => WEB_APP_NAME \in DOMAIN infraCloud.webApps
          /\ InfraCall("webapp update", [name |-> WEB_APP_NAME], ok)
          /\ infraCloud' =
                IF ok
                THEN [infraCloud EXCEPT !.webApps[WEB_APP_NAME].httpsOnly = TRUE]
                ELSE infraCloud
          /\ AfterCommand(ok, code, "summary")
    /\ UNCHANGED infraFrame

\* The summary lines; the script ends with the status of its last echo.
DisplaySummary ==
    /\ infraPc = "summary"
    /\ infraSummary' = TRUE
    /\ infraPc' = "done"
    /\ infraExit' = 0
    /\ UNCHANGED <<monVars, httpVars, alertsPending, WEB_APP_NAME, infraCalls,
                   infraCloud, deploys>>

NextInfra ==
    \/ \E second \in Seconds : StartDeploy(second)
    \/ VerifyAuthentication
    \/ DisplaySubscription
    \/ CreateResourceGroup
    \/ CreateAppServicePlan
    \/ CreateWebApp
    \/ EnableHttpsOnly
    \/ DisplaySummary

SpecInfra == Init /\ [][NextInfra]_vars

Next ==
    \/ \E app \in WebAppNames, email \in AlertEmailAddresses : Start(app, email)
    \/ VerifyLogin
    \/ VerifyWebApp
    \/ CreateWorkspace
    \/ ShowWorkspace
    \/ CreateAppInsights
    \/ ShowAppInsights
    \/ ConfigureAppSettings
    \/ CreateActionGroup
    \/ ShowActionGroup
    \/ GetAppServicePlan
    \/ CreateCpuAlert
    \/ CreateMemoryAlert
    \/ CreateHttp5xxAlert
    \/ CreateResponseTimeAlert
    \/ CreateDiagnosticSettings
    \/ Summary

Spec == Init /\ [][Next]_vars

TypeOK ==
    /\ pc \in {"idle", "account", "webapp", "wsCreate", "wsShow", "aiCreate", "aiShow",
               "appSettings", "agCreate", "agShow", "plan", "alertCpu", "alertMemory",
               "alertHttp5xx", "alertResponseTime", "diag", "summary", "done"}
    /\ exitCode \in {0, 1}
    /\ runs \in 0..MaxRuns
    /\ faults \in 0..MaxFaults

\* ------------------------------------------------------------------ claims
EmptyCloud ==
    [workspaces |-> <<>>, components |-> <<>>,
     appSettings |-> [a \in ExistingWebApps |-> <<>>],
     actionGroups |-> <<>>, alertRules |-> <<>>, diagSettings |-> <<>>]

\* The cloud as the run under way found it.
CloudAtStart == IF prev = NULL THEN EmptyCloud ELSE prev.cloud

\* The calls that create, set or update something.
WriteOps ==
    {"workspace create", "app-insights create", "appsettings set", "action-group create",
     "alert create", "diagnostic-settings create"}

Ended == pc = "done"

CallsOf(ops) == {i \in 1..Len(calls) : calls[i].op \in ops}
FailedCalls(ops) == {i \in CallsOf(ops) : ~calls[i].ok}

\* C1: when the account lookup returns nothing or the web app is not found,
\* the run ends there with exit code 1 and an error message, no create, set
\* or update call is made in it and the cloud is as the run found it; and a
\* create, set or update call is only ever made after both lookups succeeded.
C1_FailedPreconditionTouchesNothing ==
    /\ FailedCalls({"account show", "webapp show"}) # {} =>
          /\ Ended /\ exitCode = 1 /\ errorMsg # "" /\ ~summary
          /\ CallsOf(WriteOps) = {}
          /\ Cloud = CloudAtStart
    /\ CallsOf(WriteOps) # {} =>
          /\ Len(calls) >= 2
          /\ calls[1].op = "account show" /\ calls[1].ok
          /\ calls[2].op = "webapp show" /\ calls[2].ok

\* C1 witness: a run that ended because the web app was not found, in a cloud
\* that holds the resources of an earlier run.
C1_Witness ==
    /\ Ended /\ Len(calls) = 2 /\ ~calls[2].ok /\ exitCode = 1
    /\ prev # NULL /\ DOMAIN prev.cloud.workspaces # {}

\* C2: a run exits with code 0 only when all its calls succeeded, and a run in
\* which a call failed exits with a non-zero code, with the error reported and
\* without the success summary.
C2_ExitCodeTellsFailure ==
    (Ended /\ ~BindingFails(AlertEmailAddress)) =>
        /\ exitCode = 0 => AllCallsOk
        /\ ~AllCallsOk => exitCode # 0 /\ errorMsg # "" /\ ~summary

\* C3: when the action-group create call or the action-group fetch fails, the
\* run ends with a non-zero exit code, with the workspace, the telemetry
\* component and the application settings of steps 2-4 in place, and with no
\* alert rule and no diagnostic setting created in this run.
C3_ActionGroupFailureIsPartial ==
    (Ended /\ FailedCalls({"action-group create", "action-group show"}) # {}) =>
        /\ exitCode # 0 /\ ~summary
        /\ logAnalyticsName \in DOMAIN workspaces
        /\ appInsightsName \in DOMAIN components
        /\ "APPLICATIONINSIGHTS_CONNECTION_STRING" \in DOMAIN appSettings[WebAppName]
        /\ CallsOf({"alert create", "diagnostic-settings create"}) = {}

HostMetrics == {"CpuPercentage", "MemoryPercentage"}
ApplicationMetrics == {"Http5xx", "HttpResponseTime"}

\* The rule named n is a rule of web app app.
RuleOf(n, app) ==
    n \in {"alert-cpu-high-" \o app, "alert-memory-high-" \o app,
           "alert-http5xx-" \o app, "alert-response-time-" \o app}

\* C4: every alert rule in the cloud on a host metric (CPU, memory) is scoped
\* to the App Service Plan of its web app and not to the web app, and every
\* rule on an application metric (HTTP 5xx, response time) is scoped to the
\* web app and not to its plan.
C4_AlertScopes ==
    \A n \in DOMAIN alertRules : \A app \in ExistingWebApps :
        RuleOf(n, app) =>
            LET rule == alertRules[n]
                target == WebAppDescriptor(app)
            IN  /\ rule.metric \in HostMetrics \cup ApplicationMetrics
                /\ rule.metric \in HostMetrics =>
                      rule.scopes = target.appServicePlanId /\ rule.scopes # target.id
                /\ rule.metric \in ApplicationMetrics =>
                      rule.scopes = target.id /\ rule.scopes # target.appServicePlanId

\* C4 witness: the four rules of one web app are in the cloud.
C4_Witness ==
    \E app \in ExistingWebApps :
        Cardinality({n \in DOMAIN alertRules : RuleOf(n, app)}) = 4

\* The run before this one ended in success and had the inputs of this one.
RepeatsASuccess ==
    /\ prev # NULL
    /\ prev.exitCode = 0 /\ prev.allOk /\ prev.summary
    /\ prev.WebAppName = WebAppName
    /\ prev.AlertEmailAddress = AlertEmailAddress

\* C5: a run that follows a successful run with the same inputs leaves the
\* cloud as that run left it, at every step, and ends in success when its
\* calls succeed.
C5_SecondRunCreatesNothing ==
    (RepeatsASuccess /\ pc # "idle") =>
        /\ Cloud = prev.cloud
        /\ (Ended /\ AllCallsOk) => exitCode = 0 /\ summary

\* C5 witness: the second of two successful runs with the same inputs has
\* ended.
C5_Witness ==
    RepeatsASuccess /\ Ended /\ AllCallsOk /\ exitCode = 0 /\ Len(calls) = 14

\* Addresses that are syntactically valid.
ValidAddresses == {"a@b.com"}

\* C6 as stated: a run given an address that is not valid makes no call, and
\* its exit code is not zero.
C6_InvalidEmailMakesNoCall ==
    (pc # "idle" /\ AlertEmailAddress \notin ValidAddresses) =>
        /\ calls = <<>>
        /\ Ended => exitCode # 0

\* C6 amended: only the empty address is rejected before any call is made;
\* a run given any other address, valid or not, makes the account lookup, and
\* the address is given unchanged to the action-group create call and kept
\* by the action group it creates.
C6_OnlyEmptyEmailRejected ==
    /\ (pc # "idle" /\ AlertEmailAddress = "") =>
          /\ Ended /\ exitCode = 1 /\ calls = <<>> /\ ~summary
          /\ Cloud = CloudAtStart
    /\ (Ended /\ AlertEmailAddress # "") =>
          Len(calls) >= 1 /\ calls[1].op = "account show"
    /\ \A i \in CallsOf({"action-group create"}) :
          /\ calls[i].arg = AlertEmailAddress
          /\ (calls[i].ok /\ pc = "agShow") =>
                actionGroups[actionGroupName].email = AlertEmailAddress

\* C6 witness: an action group was created for a malformed address.
C6_Witness ==
    /\ AlertEmailAddress = "not-an-email"
    /\ pc = "agShow"
    /\ calls[Len(calls)].ok
    /\ actionGroups[actionGroupName].email = "not-an-email"

\* C7: two runs derive the same name for a role exactly when they were given
\* the same web app name.
C7_NamesDeterministicAndDistinct ==
    (prev # NULL) =>
        \A role \in Roles :
            (prev.names[role] = Names[role]) <=> (prev.WebAppName = WebAppName)

\* C7 witness: a run for one web app follows a run for another.
C7_Witness ==
    /\ prev # NULL
    /\ prev.WebAppName = "app-y" /\ WebAppName = "app-y-alerts"
    /\ pc = "summary"

AlertNames == {AlertCpuName, AlertMemoryName, AlertHttp5xxName, AlertResponseTimeName}

\* The run has ended and every call it made succeeded.
Success == Ended /\ calls # <<>> /\ AllCallsOk

\* C8: a run whose calls all succeed ends with exit code 0 and the summary,
\* having made one call per step; the cloud then holds the workspace, the
\* telemetry component bound to it, with its connection string in the web
\* app's settings, the action group, four alert rules of distinct names and
\* the diagnostic setting of the web app, with three log categories and all
\* metrics; and a first run leaves nothing else in the cloud.
C8_SuccessfulRunProduces ==
    Success =>
        /\ exitCode = 0 /\ summary /\ errorMsg = ""
        /\ [i \in 1..Len(calls) |-> calls[i].op] =
              <<"account show", "webapp show", "workspace create", "workspace show",
                "app-insights create", "app-insights show", "appsettings set",
                "action-group create", "action-group show", "alert create",
                "alert create", "alert create", "alert create",
                "diagnostic-settings create">>
        /\ logAnalyticsName \in DOMAIN workspaces
        /\ appInsightsName \in DOMAIN components
        /\ components[appInsightsName].workspace = workspaces[logAnalyticsName].id
        /\ appSettings[WebAppName]["APPLICATIONINSIGHTS_CONNECTION_STRING"] =
              components[appInsightsName].connectionString
        /\ DOMAIN appSettings[WebAppName] =
              {"APPLICATIONINSIGHTS_CONNECTION_STRING",
               "ApplicationInsightsAgent_EXTENSION_VERSION",
               "XDT_MicrosoftApplicationInsights_Mode"}
        /\ actionGroupName \in DOMAIN actionGroups
        /\ actionGroups[actionGroupName].email = AlertEmailAddress
        /\ Cardinality(AlertNames) = 4
        /\ AlertNames \subseteq DOMAIN alertRules
        /\ \A n \in AlertNames : alertRules[n].action = actionGroups[actionGroupName].id
        /\ LET key == DiagKey(WebAppDescriptor(WebAppName).id, DiagName) IN
              /\ key \in DOMAIN diagSettings
              /\ diagSettings[key].resource = WebAppDescriptor(WebAppName).id
              /\ diagSettings[key].workspace = workspaces[logAnalyticsName].id
              /\ diagSettings[key].logs =
                    {"AppServiceHTTPLogs", "AppServiceConsoleLogs", "AppServiceAppLogs"}
              /\ Cardinality(diagSettings[key].logs) = 3
              /\ diagSettings[key].metrics = {"AllMetrics"}
        /\ prev = NULL =>
              /\ DOMAIN workspaces = {logAnalyticsName}
              /\ DOMAIN components = {appInsightsName}
              /\ DOMAIN actionGroups = {actionGroupName}
              /\ DOMAIN alertRules = AlertNames
              /\ Cardinality(DOMAIN diagSettings) = 1

\* C8 witness: a first run has ended with every call succeeded.
C8_Witness == Success /\ prev = NULL /\ faults = 0

C10_WindowCoversFrequency ==
    \A n \in DOMAIN alertRules :
        /\ alertRules[n].windowSize >= alertRules[n].evaluationFrequency
        /\ alertRules[n].windowSize = 5
        /\ alertRules[n].evaluationFrequency = 1

\* C10 witness: the four rules of a run are in the cloud.
C10_Witness == Ended /\ AlertNames \subseteq DOMAIN alertRules

\* The diagnostic settings set on the resource of identifier id.
DiagSettingsOn(id) == {k \in DOMAIN diagSettings : diagSettings[k].resource = id}

\* C11: a run makes at most one diagnostic-settings create call, named after
\* the web app and given the identifier of the web app and the workspace
\* identifier that the workspace fetch of the same run returned; a web app
\* never has more than one diagnostic setting, and it has exactly one, on that
\* workspace, when a run succeeded, after a first run as after a repeated one.
C11_OneDiagnosticSetting ==
    /\ Cardinality(CallsOf({"diagnostic-settings create"})) <= 1
    /\ \A i \in CallsOf({"diagnostic-settings create"}) :
          /\ calls[i].arg = DiagName
          /\ \E j \in 1..(i - 1) :
                /\ calls[j].op = "workspace show" /\ calls[j].ok
                /\ calls[i].uses = {WebAppDescriptor(WebAppName).id} \cup calls[j].gives
                /\ Cardinality(calls[i].uses) = 2
    /\ \A app \in ExistingWebApps :
          Cardinality(DiagSettingsOn(WebAppDescriptor(app).id)) <= 1
    /\ Success =>
          \E k \in DOMAIN diagSettings :
              /\ DiagSettingsOn(WebAppDescriptor(WebAppName).id) = {k}
              /\ diagSettings[k].workspace = logAnalytics.id

\* C11 witness: the second of two successful runs for one web app has ended,
\* and the web app has one diagnostic setting.
C11_Witness ==
    /\ RepeatsASuccess /\ Success
    /\ Cardinality(DiagSettingsOn(WebAppDescriptor(WebAppName).id)) = 1

\* The fetches whose output a command is given identifiers from.
Sources(op) ==
    CASE op = "app-insights create" -> {"workspace show"}
      [] op = "appsettings set" -> {"app-insights show"}
      [] op = "alert create" -> {"webapp show", "action-group show"}
      [] op = "diagnostic-settings create" -> {"webapp show", "workspace show"}
      [] OTHER -> {}

\* C12: every identifier a call is given is not empty and is in the output
\* of a fetch that succeeded earlier in the same run; the telemetry component
\* create is given the workspace identifier, the settings call the connection
\* string, every alert rule create the action group identifier, and the
\* diagnostic-settings create the workspace identifier.
C12_IdentifiersComeFromEarlierSteps ==
    \A i \in 1..Len(calls) :
        /\ \A u \in calls[i].uses :
              /\ u # ""
              /\ \E j \in 1..(i - 1) :
                    /\ calls[j].op \in Sources(calls[i].op)
                    /\ calls[j].ok
                    /\ u \in calls[j].gives
        /\ \A src \in Sources(calls[i].op) :
              \E j \in 1..(i - 1) :
                  /\ calls[j].op = src
                  /\ calls[j].ok
                  /\ calls[j].gives \cap calls[i].uses # {}

\* C12 witness: a second run has made all its calls, the cloud holding the
\* resources of the first.
C12_Witness ==
    /\ prev # NULL /\ DOMAIN prev.cloud.actionGroups # {}
    /\ Ended /\ Len(calls) = 14

\* The step of the workflow a command belongs to.
StepOf(op) ==
    CASE op \in {"account show", "webapp show"} -> 1
      [] op \in {"workspace create", "workspace show"} -> 2
      [] op \in {"app-insights create", "app-insights show"} -> 3
      [] op = "appsettings set" -> 4
      [] op \in {"action-group create", "action-group show"} -> 5
      [] op = "alert create" -> 7
      [] OTHER -> 8

\* The resource a create or set call that succeeded has made is in the cloud.
Made(c) ==
    CASE c.op = "workspace create" -> c.arg \in DOMAIN workspaces
      [] c.op = "app-insights create" -> c.arg \in DOMAIN components
      [] c.op = "appsettings set" ->
            "APPLICATIONINSIGHTS_CONNECTION_STRING" \in DOMAIN appSettings[c.arg]
      [] c.op = "action-group create" -> actionGroupName \in DOMAIN actionGroups
      [] c.op = "alert create" -> c.arg \in DOMAIN alertRules
      [] c.op = "diagnostic-settings create" ->
            DiagKey(webAppResourceId, c.arg) \in DOMAIN diagSettings
      [] OTHER -> TRUE

\* C13: in a run no create or set call is made twice, no call of a later step
\* follows a call that failed, and what the calls that succeeded made is in
\* the cloud.
C13_NoRetryStopAtFailureNoRollback ==
    /\ \A i, j \in CallsOf(WriteOps) :
          (calls[i].op = calls[j].op /\ calls[i].arg = calls[j].arg) => i = j
    /\ \A i, j \in 1..Len(calls) :
          (~calls[i].ok /\ i < j) => StepOf(calls[j].op) <= StepOf(calls[i].op)
    /\ \A i \in CallsOf(WriteOps) : calls[i].ok => Made(calls[i])

\* The create call of the rule of this kind was made and succeeded.
Created(kind) ==
    \E i \in CallsOf({"alert create"}) :
        /\ calls[i].arg = AlertRule(kind).name
        /\ calls[i].uses = {AlertRule(kind).scopes, AlertRule(kind).action}
        /\ calls[i].ok

\* rules with the rule of this kind put in it, when its create call is among
\* those made (done) and succeeded.
WithRule(rules, kind, done) ==
    IF kind \in done /\ Created(kind)
    THEN Put(rules, AlertRule(kind).name, AlertRule(kind))
    ELSE rules

\* What the calls of the kinds in done leave when they are made in the order
\* of the script, on a cloud without alert rules.
InScriptOrder(done) ==
    WithRule(WithRule(WithRule(WithRule(<<>>, "cpu", done), "memory", done),
                      "http5xx", done),
             "responseTime", done)

\* C14: whatever the order in which the alert rule create calls are made, the
\* alert rules in the cloud are those the same calls leave when made in the
\* order of the script; the calls are given identifiers of steps 1-6 alone,
\* which no create call of step 7 changes; and after the four calls the rules
\* created have distinct names.
C14_AnyOrderSameRules ==
    /\ alertRules = InScriptOrder(AlertKinds \ alertsPending)
    /\ Len(calls) = 9 + Cardinality(AlertKinds \ alertsPending)
    /\ \A i \in CallsOf({"alert create"}) :
          calls[i].uses \subseteq
              {webApp.id, webApp.appServicePlanId, actionGroups[actionGroupName].id}
    /\ (pc = "diag" /\ AllCallsOk) =>
          /\ alertsPending = {}
          /\ Cardinality(DOMAIN alertRules) = 4

\* C14 witness: the four calls were made in the reverse of the script's
\* order, and all succeeded.
C14_Witness ==
    /\ pc = "diag" /\ AllCallsOk
    /\ calls[10].arg = AlertResponseTimeName
    /\ calls[11].arg = AlertHttp5xxName
    /\ calls[12].arg = AlertMemoryName
    /\ calls[13].arg = AlertCpuName

\* C15: every request the server answered was answered once; '/health' and
\* '/' got status 200, every other URL, those with a query string among them,
\* got status 404 with the JSON body {error: 'Not Found'}; and two requests
\* for one URL got the same status and content type, whatever their methods
\* and whatever was answered before them.
C15_StatusByUrlAlone ==
    \A i \in 1..Len(served) :
        LET req == served[i].req
            res == served[i].res
        IN  /\ served[i].ends = 1
            /\ req.url \in {"/health", "/"} => res.status = 200
            /\ req.url \notin {"/health", "/"} =>
                  /\ res.status = 404
                  /\ res.contentType = "application/json"
                  /\ res.body = [error |-> "Not Found"]
            /\ \A j \in 1..Len(served) :
                  served[j].req.url = req.url =>
                      /\ served[j].res.status = res.status
                      /\ served[j].res.contentType = res.contentType
                      /\ DOMAIN served[j].res.body = DOMAIN res.body

\* C15 witness: '/health' was answered, then '/health' with a query string,
\* asked with another method, was answered 404.
C15_Witness ==
    /\ Len(served) = 2
    /\ served[1].req.url = "/health" /\ served[1].res.status = 200
    /\ served[2].req.url = "/health?full=1" /\ served[2].res.status = 404
    /\ served[1].req.method # served[2].req.method

\* C16: infrastructure.sh makes its az calls in the order of its lines and
\* stops at the first that fails: every call before the last one succeeded,
\* so the plan is asked for after the group was created, the web app after
\* the plan and HTTPS-only after the web app; a run with a failed call has
\* ended with a non-zero code and without the summary; the summary is
\* written after all the calls succeeded; and a failed authentication check
\* ends the run with code 1 and no call after it.
C16_FixedOrderStopAtFirstFailure ==
    /\ Len(infraCalls) <= Len(InfraOrder)
    /\ \A i \in 1..Len(infraCalls) :
          /\ infraCalls[i].op = InfraOrder[i]
          /\ i < Len(infraCalls) => infraCalls[i].ok
    /\ \A i \in 1..Len(infraCalls) :
          ~infraCalls[i].ok =>
              /\ infraPc = "done"
              /\ infraExit # 0
              /\ ~infraSummary
    /\ infraSummary =>
          /\ Len(infraCalls) = Len(InfraOrder)
          /\ \A i \in 1..Len(infraCalls) : infraCalls[i].ok
          /\ WEB_APP_NAME \in DOMAIN infraCloud.webApps
          /\ infraCloud.webApps[WEB_APP_NAME].httpsOnly
    /\ (Len(infraCalls) >= 1 /\ ~infraCalls[1].ok) =>
          /\ Len(infraCalls) = 1
          /\ infraExit = 1

\* C16 witness: the plan creation failed after the resource group was
\* created, and the run ended there.
C16_Witness ==
    /\ infraPc = "done"
    /\ Len(infraCalls) = 4
    /\ infraCalls[3].ok /\ ~infraCalls[4].ok
    /\ infraExit # 0
    /\ RESOURCE_GROUP \in infraCloud.groups
    /\ infraCloud.webApps = <<>>

====
